---- MODULE Spec2Model ----
(***************************************************************************)
(* Conversation pipeline of NeuroLink Speak: decode/transcribe ->          *)
(* translate -> synthesize, the session's in-memory history and the        *)
(* persistent conversation log.                                            *)
(*                                                                         *)
(* Texts are sequences of strings: <<id>> is a raw text, and every         *)
(* successful run of a MarianMT model appends <<src, tgt>> to the text it  *)
(* was given, so a translated text never equals its input.  The empty      *)
(* string is << >>.  Python's None is NoneText (for texts and byte         *)
(* buffers) or NoneStr (for strings such as a language code).              *)
(* A Python call is modelled by an operator that returns                   *)
(* [exc |-> raised?, val |-> return value].                                *)
(***************************************************************************)
EXTENDS Integers, Sequences, FiniteSets, TLC

VARIABLES
    user,                  \* st.session_state.user
    conversation_history,  \* st.session_state.conversation_history
    message_counter,       \* st.session_state.message_counter (absent = 0)
    active_decoding,       \* st.session_state.active_decoding
    logs,                  \* rows of table conversation_logs, in id order
    last,                  \* what the last run of the pipeline did (observer)
    users,                 \* rows of table users, in id order
    sess,                  \* the browser sessions that sign up, log in and write logs
    call,                  \* one call of a service function and its result
    pending                \* rows added to each open database session, not committed

vars == <<user, conversation_history, message_counter, active_decoding, logs, last, users, sess, call, pending>>

\* what the conversation pipeline leaves alone
others == <<users, sess, call, pending>>

\* Bound of the model: turns produced in one session.
MaxTurns == 2

----------------------------------------------------------------------------
\* Values

NoneText == <<"<None>">>
NoneStr == "<None>"
EmptyText == << >>

\* Python truthiness of an Optional[str] / Optional[bytes]
Falsy(x) == x = NoneText \/ x = EmptyText

Ret(v) == [exc |-> FALSE, val |-> v]
Raise == [exc |-> TRUE, val |-> NoneText]

\* a result together with the st.warning / st.error message shown on the way
Shown(r, ui) == [exc |-> r.exc, val |-> r.val, ui |-> ui]

\* config.py: the languages the model draws from (a subset of the ten)
SUPPORTED_LANGUAGES == {"en", "es", "fr"}

\* config.py: the pairs that have a MarianMT model (en-X and X-en only)
TRANSLATION_MODELS == {<<"en", "es">>, <<"es", "en">>, <<"en", "fr">>, <<"fr", "en">>}

\* signal_decoder.py: (phrase, confidence in percent) readings
Readings == {[phrase |-> <<"I need help">>, confidence |-> 85],
             [phrase |-> <<"Yes">>, confidence |-> 70]}

\* asr_service.py: mock transcriptions
mock_transcriptions == {<<"What time is it?">>}

\* what the user can type in the manual input box
ManualTexts == {<<"hello">>}

FallbackText == <<"Sorry, I couldn't understand that.">>

\* language a text is written in: the target of the last model run, else English
\* (every mock phrase, transcription and the fallback string are English)
LangOf(text) == IF Len(text) > 1 THEN text[Len(text)] ELSE "en"

----------------------------------------------------------------------------
\* translator_service.py

\* what a run of TranslatorService.translate_text can meet: the model loads and
\* generates, fails to load, throws during inference, or decodes to ""
TranslatorOutcomes == {"ok", "load_fail", "throw", "empty"}

\* the outcomes the conversation pipeline draws from: one success and one failure
\* (the three failures leave translate_text with the same result)
PipelineOutcomes == {"ok", "throw"}

\* tokenizer + model.generate + decode, inside the try block
MarianGenerate(text, source_lang, target_lang, outcome) ==
    IF outcome = "throw" THEN Raise
    ELSE IF outcome = "empty" THEN Ret(EmptyText)
    ELSE Ret(text \o <<source_lang, target_lang>>)

\* mutant: the inference runs outside the try block
TranslatorService_translate_text_uncaught(text, source_lang, target_lang, outcome) ==
    IF <<source_lang, target_lang>> \notin TRANSLATION_MODELS
    THEN Shown(Ret(NoneText), "warning")
    ELSE IF outcome = "load_fail" THEN Shown(Ret(NoneText), "error")
    ELSE Shown(MarianGenerate(text, source_lang, target_lang, outcome), "none")

\* mutant: a model is looked up for every pair of languages
TranslatorService_translate_text_any_pair(text, source_lang, target_lang, outcome) ==
    IF outcome = "load_fail" THEN Shown(Ret(NoneText), "error")
    ELSE LET r == MarianGenerate(text, source_lang, target_lang, outcome)
         IN IF r.exc THEN Shown(Ret(NoneText), "error") ELSE Shown(r, "none")

\* the result says which message, st.warning or st.error, was shown
TranslatorService_translate_text(text, source_lang, target_lang, outcome) ==
    IF <<source_lang, target_lang>> \notin TRANSLATION_MODELS
    THEN Shown(Ret(NoneText), "warning")
    ELSE IF outcome = "load_fail" THEN Shown(Ret(NoneText), "error")
    ELSE LET r == MarianGenerate(text, source_lang, target_lang, outcome)
         IN IF r.exc THEN Shown(Ret(NoneText), "error") ELSE Shown(r, "none")

\* a result of translate_text: was translator_service called, and what it showed
Answer(r, called, ui) == [exc |-> r.exc, val |-> r.val, called |-> called, ui |-> ui]

\* mutant: the target "none" is handed to the service like any language
translate_text_no_sentinel(text, source_lang, target_lang, outcome) ==
    IF Falsy(text) THEN Answer(Ret(EmptyText), FALSE, "none")
    ELSE LET r == TranslatorService_translate_text(text, source_lang, target_lang, outcome)
         IN IF r.exc THEN Answer(r, TRUE, r.ui)
            ELSE Answer(Ret(IF Falsy(r.val) THEN text ELSE r.val), TRUE, r.ui)

\* mutant: an empty text is handed to the service like any text
translate_text_no_empty_check(text, source_lang, target_lang, outcome) ==
    IF target_lang = "no" \/ target_lang = "none" THEN Answer(Ret(text), FALSE, "none")
    ELSE LET r == TranslatorService_translate_text(text, source_lang, target_lang, outcome)
         IN IF r.exc THEN Answer(r, TRUE, r.ui)
            ELSE Answer(Ret(IF Falsy(r.val) THEN text ELSE r.val), TRUE, r.ui)

\* mutant: the service's answer is returned as it is, None included
translate_text_no_passthrough(text, source_lang, target_lang, outcome) ==
    IF Falsy(text) THEN Answer(Ret(EmptyText), FALSE, "none")
    ELSE IF target_lang = "no" \/ target_lang = "none" THEN Answer(Ret(text), FALSE, "none")
    ELSE LET r == TranslatorService_translate_text(text, source_lang, target_lang, outcome)
         IN Answer(r, TRUE, r.ui)

translate_text(text, source_lang, target_lang, outcome) ==
    IF Falsy(text) THEN Answer(Ret(EmptyText), FALSE, "none")
    ELSE IF target_lang = "no" \/ target_lang = "none" THEN Answer(Ret(text), FALSE, "none")
    ELSE LET r == TranslatorService_translate_text(text, source_lang, target_lang, outcome)
         IN IF r.exc THEN Answer(r, TRUE, r.ui)
            ELSE Answer(Ret(IF Falsy(r.val) THEN text ELSE r.val), TRUE, r.ui)

\* observer: how the Translator service took part in a translate_text call
TranslatorReport(text, source_lang, target_lang, outcome) ==
    IF Falsy(text) \/ target_lang = "no" \/ target_lang = "none" THEN "skipped"
    ELSE LET r == TranslatorService_translate_text(text, source_lang, target_lang, outcome)
         IN IF r.exc \/ Falsy(r.val) THEN "failed" ELSE "ok"

----------------------------------------------------------------------------
\* tts_service.py

DetectOutcomes == {"ok", "fail"}
GttsOutcomes == {"ok", "fail"}

\* the language gTTS is called with: the hint, else langdetect's answer, else "en"
tts_language(text, language, detect) ==
    IF language = NoneStr \/ language = ""
    THEN IF detect = "ok" THEN LangOf(text) ELSE "en"
    ELSE language

\* gTTS(text, lang) + tts.save + reading the file back, inside the try block
gTTS_save(text, lang, gtts) ==
    IF gtts = "fail" THEN Raise ELSE Ret(<<"mp3", lang>> \o text)

\* a result of the speech functions: was tts_service.text_to_speech called, the
\* language gTTS was run with (None when it was not run), the message shown
Spoken(r, called, lang, ui) == [exc |-> r.exc, val |-> r.val, called |-> called, lang |-> lang, ui |-> ui]

\* mutant: the synthesis runs outside the try block
TTSService_text_to_speech_uncaught(text, voice_type, language, detect, gtts) ==
    IF Falsy(text) THEN Spoken(Ret(NoneText), TRUE, NoneStr, "none")
    ELSE LET lang == tts_language(text, language, detect)
         IN Spoken(gTTS_save(text, lang, gtts), TRUE, lang, "none")

TTSService_text_to_speech(text, voice_type, language, detect, gtts) ==
    IF Falsy(text) THEN Spoken(Ret(NoneText), TRUE, NoneStr, "none")
    ELSE LET lang == tts_language(text, language, detect)
             r == gTTS_save(text, lang, gtts)
         IN IF r.exc THEN Spoken(Ret(NoneText), TRUE, lang, "error")
            ELSE Spoken(r, TRUE, lang, "none")

\* mutant: an empty text is handed to the service like any text
generate_speech_no_empty_check(text, voice_type, language, detect, gtts) ==
    TTSService_text_to_speech(text, voice_type, language, detect, gtts)

generate_speech(text, voice_type, language, detect, gtts) ==
    IF Falsy(text) THEN Spoken(Ret(NoneText), FALSE, NoneStr, "none")
    ELSE TTSService_text_to_speech(text, voice_type, language, detect, gtts)

----------------------------------------------------------------------------
\* asr_service.py

\* random.choice over the mock transcriptions, or an exception inside the try block
AsrOutcomes == mock_transcriptions \cup {<<"<error>">>}

ASRService_transcribe_audio(audio_bytes, asr) ==
    IF Falsy(audio_bytes) THEN Ret(NoneText)
    ELSE IF asr = <<"<error>">> THEN Ret(NoneText)
    ELSE Ret(asr)

transcribe_speech(audio_bytes, asr) ==
    IF Falsy(audio_bytes) THEN Ret(NoneText)
    ELSE ASRService_transcribe_audio(audio_bytes, asr)

\* the mock recording of simulate_incoming_message: 1 to 3 seconds of samples
MockAudio == <<"pcm">>

----------------------------------------------------------------------------
\* database.py / ConversationManager.save_conversation_log

DbOutcomes == {"ok", "fail"}

NoUser == [id |-> 0]
NonePath == [none |-> TRUE]

ConversationLog(id, user_id, direction, original_text, translated_text, audio_file_path) ==
    [id |-> id, user_id |-> user_id, direction |-> direction,
     original_text |-> original_text, translated_text |-> translated_text,
     audio_file_path |-> audio_file_path]

\* mutant: the row of a failed commit stays in the table
db_add_commit_keeps_failed(table, row, db) ==
    [exc |-> db # "ok", table |-> Append(table, row)]

\* db.add + db.commit, or the rollback of the except branch
db_add_commit(table, row, db) ==
    IF db = "ok" THEN [exc |-> FALSE, table |-> Append(table, row)]
    ELSE [exc |-> TRUE, table |-> table]

\* returns the table after the call, the boolean result, and whether a write was tried
save_conversation_log(table, usr, history, direction, original_text, translated_text, audio_bytes, db) ==
    IF usr = NoUser
    THEN [exc |-> FALSE, val |-> FALSE, table |-> table, tried |-> FALSE]
    ELSE LET audio_file_path ==
                 IF Falsy(audio_bytes) THEN NonePath
                 ELSE [uid |-> usr.id, direction |-> direction, index |-> Len(history)]
             log_entry == ConversationLog(Len(table) + 1, usr.id, direction,
                                          original_text, translated_text, audio_file_path)
             r == db_add_commit(table, log_entry, db)
         IN [exc |-> FALSE, val |-> ~r.exc, table |-> r.table, tried |-> TRUE]

----------------------------------------------------------------------------
\* Session (auth.py) and the observer of a script run

\* a row of table users as create_user stores it from the signup form
User(id, native_language, target_language, voice_type) ==
    [id |-> id, native_language |-> native_language,
     target_language |-> target_language, voice_type |-> voice_type]

\* the stored users a session is logged in as: a supported pair in each direction,
\* target = native (what signup stores with translation disabled), the sentinel
Users == {User(1, "en", "es", "default"), User(1, "es", "en", "female"),
          User(1, "es", "es", "male"), User(1, "en", "none", "default")}

\* a call of translate_text together with what the observer keeps of it
Translate(text, source_lang, target_lang, outcome) ==
    [res |-> translate_text(text, source_lang, target_lang, outcome),
     call |-> [text |-> text, source_lang |-> source_lang, target_lang |-> target_lang,
               report |-> TranslatorReport(text, source_lang, target_lang, outcome)]]

\* a call of generate_speech together with what the observer keeps of it:
\* the arguments, the language gTTS was run with, and whether gTTS failed
Speak(text, voice_type, language, detect, gtts) ==
    [res |-> generate_speech(text, voice_type, language, detect, gtts),
     call |-> [text |-> text, voice_type |-> voice_type, language |-> language,
               gtts_lang |-> IF Falsy(text) THEN NoneStr
                             ELSE tts_language(text, language, detect),
               failed |-> ~Falsy(text) /\ gtts = "fail"]]

\* a call of save_conversation_log together with what the observer keeps of it
Save(table, usr, history, direction, original_text, translated_text, audio_bytes, db) ==
    LET r == save_conversation_log(table, usr, history, direction, original_text,
                                   translated_text, audio_bytes, db)
    IN [res |-> r,
        calls |-> IF r.tried
                  THEN <<[direction |-> direction, original_text |-> original_text,
                          translated_text |-> translated_text, saved |-> r.val]>>
                  ELSE << >>]

Observed(op, heard, translations, speech, writes, raised) ==
    [op |-> op, heard |-> heard, translations |-> translations, speech |-> speech,
     writes |-> writes, raised |-> raised,
     len0 |-> Len(conversation_history), counter0 |-> message_counter]

Idle == Observed("init", NoneText, << >>, << >>, << >>, FALSE)

\* no browser session beside the one of the pipeline, no function call on its own
NoSessions == << >>
NoCall == [fn |-> "none"]
NoPending == << >>

\* an exception that leaves the script run before anything was stored
Uncaught(op, heard, translations, speech) ==
    /\ last' = Observed(op, heard, translations, speech, << >>, TRUE)
    /\ UNCHANGED <<user, conversation_history, message_counter, active_decoding, logs>>
    /\ UNCHANGED others

\* mutant: the turn is kept only when its log entry was written
RecordIfSaved(op, heard, translations, speech, message_entry, counter, saved) ==
    /\ conversation_history' = IF saved.res.val
                               THEN Append(conversation_history, message_entry)
                               ELSE conversation_history
    /\ message_counter' = IF saved.res.val THEN counter ELSE message_counter
    /\ logs' = saved.res.table
    /\ last' = Observed(op, heard, translations, speech, saved.calls, saved.res.exc)
    /\ UNCHANGED <<user, active_decoding>>
    /\ UNCHANGED others

\* the append to the history, the counter and the log write that end every operation
Record(op, heard, translations, speech, message_entry, counter, saved) ==
    /\ conversation_history' = Append(conversation_history, message_entry)
    /\ message_counter' = counter
    /\ logs' = saved.res.table
    /\ last' = Observed(op, heard, translations, speech, saved.calls, saved.res.exc)
    /\ UNCHANGED <<user, active_decoding>>
    /\ UNCHANGED others

\* mutant: the counter is read but never advanced
NextCounterStuck(counter) == counter

\* st.session_state.get("message_counter", 0) + 1
NextCounter(counter) == counter + 1

----------------------------------------------------------------------------
\* ConversationManager (conversation_mode.py)

Init ==
    /\ user \in Users
    /\ conversation_history = << >>
    /\ message_counter = 0
    /\ active_decoding = TRUE
    /\ logs = << >>
    /\ last = Idle
    /\ users = << >>
    /\ sess = NoSessions
    /\ call = NoCall
    /\ pending = NoPending

OutgoingEntry(original_text, translated_text, confidence, audio_bytes, counter) ==
    [sender |-> "You", original |-> original_text, translated |-> translated_text,
     confidence |-> confidence, audio |-> audio_bytes, timestamp |-> counter]

\* mutant: the outgoing path translates in the direction of the incoming path
outgoing_translate_reversed(original_text, usr, outcome) ==
    Translate(original_text, usr.target_language, usr.native_language, outcome)

\* translate_text(original_text, self.user.native_language, self.user.target_language)
outgoing_translate(original_text, usr, outcome) ==
    Translate(original_text, usr.native_language, usr.target_language, outcome)

\* generate_speech(translated_text, self.user.voice_type): no language is passed
pipeline_speech(translated_text, usr, detect, gtts) ==
    Speak(translated_text, usr.voice_type, NoneStr, detect, gtts)

simulate_outgoing_message(reading, outcome, detect, gtts, db) ==
    LET original_text == reading.phrase
        confidence == reading.confidence
        tr == outgoing_translate(original_text, user, outcome)
    IN IF tr.res.exc THEN Uncaught("outgoing", NoneText, <<tr.call>>, << >>)
       ELSE
       LET translated_text == tr.res.val
           sp == pipeline_speech(translated_text, user, detect, gtts)
       IN IF sp.res.exc THEN Uncaught("outgoing", NoneText, <<tr.call>>, <<sp.call>>)
          ELSE
          LET audio_bytes == sp.res.val
              message_entry == OutgoingEntry(original_text, translated_text, confidence,
                                             audio_bytes, message_counter)
              saved == Save(logs, user, Append(conversation_history, message_entry),
                            "outgoing", original_text, translated_text, audio_bytes, db)
          IN Record("outgoing", NoneText, <<tr.call>>, <<sp.call>>, message_entry,
                    NextCounter(message_counter), saved)

\* "Simulate Your Message (EEG/EMG)" pressed
ClickOutgoing ==
    /\ user # NoUser
    /\ Len(conversation_history) < MaxTurns
    /\ IF active_decoding
       THEN \E reading \in Readings, outcome \in PipelineOutcomes,
               detect \in DetectOutcomes, gtts \in GttsOutcomes, db \in DbOutcomes :
                simulate_outgoing_message(reading, outcome, detect, gtts, db)
       ELSE UNCHANGED vars  \* st.warning("Active decoding is disabled...")

\* mutant: the partner's turn is stamped with the length of the history after it
IncomingEntryStampedAfter(original_text, translated_text, audio_bytes, counter) ==
    [sender |-> "Partner", original |-> original_text, translated |-> translated_text,
     audio |-> audio_bytes, timestamp |-> counter + 1]

IncomingEntry(original_text, translated_text, audio_bytes, counter) ==
    [sender |-> "Partner", original |-> original_text, translated |-> translated_text,
     audio |-> audio_bytes, timestamp |-> counter]

\* mutant: an absent transcription is passed on as it is
NoFallback(text) == text

\* `if not original_text: original_text = "Sorry, I couldn't understand that."`
OrFallback(text) == IF Falsy(text) THEN FallbackText ELSE text

\* mutant: the incoming path translates in the direction of the outgoing path
incoming_translate_as_outgoing(original_text, usr, outcome) ==
    Translate(original_text, usr.native_language, usr.target_language, outcome)

\* translate_text(original_text, self.user.target_language, self.user.native_language)
incoming_translate(original_text, usr, outcome) ==
    Translate(original_text, usr.target_language, usr.native_language, outcome)

simulate_incoming_message(asr, outcome, detect, gtts, db) ==
    LET heard == transcribe_speech(MockAudio, asr)
    IN IF heard.exc THEN Uncaught("incoming", NoneText, << >>, << >>)
       ELSE
       LET original_text == OrFallback(heard.val)
           tr == incoming_translate(original_text, user, outcome)
       IN IF tr.res.exc THEN Uncaught("incoming", heard.val, <<tr.call>>, << >>)
          ELSE
          LET translated_text == tr.res.val
              sp == pipeline_speech(translated_text, user, detect, gtts)
          IN IF sp.res.exc
             THEN Uncaught("incoming", heard.val, <<tr.call>>, <<sp.call>>)
             ELSE
             LET response_audio_bytes == sp.res.val
                 message_entry == IncomingEntry(original_text, translated_text,
                                                response_audio_bytes, message_counter)
                 saved == Save(logs, user, Append(conversation_history, message_entry),
                               "incoming", original_text, translated_text,
                               response_audio_bytes, db)
             IN Record("incoming", heard.val, <<tr.call>>, <<sp.call>>, message_entry,
                       NextCounter(message_counter), saved)

\* "Simulate Partner Message (Speech)" pressed
ClickIncoming ==
    /\ user # NoUser
    /\ Len(conversation_history) < MaxTurns
    /\ \E asr \in AsrOutcomes, outcome \in PipelineOutcomes,
          detect \in DetectOutcomes, gtts \in GttsOutcomes, db \in DbOutcomes :
           simulate_incoming_message(asr, outcome, detect, gtts, db)

\* the base language manual input is assumed to be typed in
ManualBaseLanguage == "en"

ManualEntry(original_text, translated_text, audio_bytes, counter) ==
    [sender |-> "You", original |-> original_text, translated |-> translated_text,
     confidence |-> 100, audio |-> audio_bytes, timestamp |-> counter]

\* translate_text(manual_text, "en", self.user.native_language)
manual_to_native(manual_text, usr, outcome) ==
    Translate(manual_text, ManualBaseLanguage, usr.native_language, outcome)

\* mutant: the second translation starts from the base language again
manual_to_target_from_base(native_translated_text, usr, outcome) ==
    Translate(native_translated_text, ManualBaseLanguage, usr.target_language, outcome)

\* translate_text(native_translated_text, native_language, target_language)
manual_to_target(native_translated_text, usr, outcome) ==
    Translate(native_translated_text, usr.native_language, usr.target_language, outcome)

\* the original_text the manual path gives save_conversation_log
ManualLogOriginal(manual_text, native_translated_text) == manual_text

\* `if st.button("Send Manual Message") and manual_text`
ManualSent(manual_text) == ~Falsy(manual_text)

\* the manual input part of conversation_interface, "Send Manual Message" pressed
send_manual_message(manual_text, outcome1, outcome2, detect, gtts, db) ==
    LET tr1 == manual_to_native(manual_text, user, outcome1)
    IN IF tr1.res.exc THEN Uncaught("manual", NoneText, <<tr1.call>>, << >>)
       ELSE IF ~ManualSent(manual_text) THEN UNCHANGED vars
       ELSE
       LET native_translated_text == tr1.res.val
           tr2 == manual_to_target(native_translated_text, user, outcome2)
           trc == <<tr1.call, tr2.call>>
       IN IF tr2.res.exc THEN Uncaught("manual", NoneText, trc, << >>)
          ELSE
          LET translated_text == tr2.res.val
              sp == pipeline_speech(translated_text, user, detect, gtts)
          IN IF sp.res.exc THEN Uncaught("manual", NoneText, trc, <<sp.call>>)
             ELSE
             LET audio_bytes == sp.res.val
                 message_entry == ManualEntry(native_translated_text, translated_text,
                                              audio_bytes, message_counter)
                 saved == Save(logs, user, Append(conversation_history, message_entry),
                               "outgoing",
                               ManualLogOriginal(manual_text, native_translated_text),
                               translated_text, audio_bytes, db)
             IN Record("manual", NoneText, trc, <<sp.call>>, message_entry,
                       NextCounter(message_counter), saved)

\* "Send Manual Message" pressed with text in the box
SendManual ==
    /\ user # NoUser
    /\ Len(conversation_history) < MaxTurns
    /\ \E manual_text \in ManualTexts,
          outcome1 \in PipelineOutcomes, outcome2 \in PipelineOutcomes,
          detect \in DetectOutcomes, gtts \in GttsOutcomes, db \in DbOutcomes :
           send_manual_message(manual_text, outcome1, outcome2, detect, gtts, db)

\* "Send Manual Message" pressed with an empty box: no service is reached
SendManualEmpty ==
    /\ user # NoUser
    /\ send_manual_message(EmptyText, "ok", "ok", "ok", "ok", "ok")

\* the "Active Decoding" toggle is flipped
ToggleActiveDecoding ==
    /\ user # NoUser
    /\ active_decoding' = ~active_decoding
    /\ UNCHANGED <<user, conversation_history, message_counter, logs, last>>
    /\ UNCHANGED others

Next ==
    \/ ClickOutgoing
    \/ ClickIncoming
    \/ SendManual
    \/ SendManualEmpty
    \/ ToggleActiveDecoding

Spec == Init /\ [][Next]_vars

----------------------------------------------------------------------------
\* translate_text and generate_speech called on their own: the arguments are
\* drawn in the initial state, one step applies the function

FnTexts == {EmptyText, <<"hello">>, <<"hola", "en", "es">>}
FnLanguages == SUPPORTED_LANGUAGES \cup {"xx"}
FnTargets == FnLanguages \cup {"none", "no"}
FnVoices == {"default", "male", "female"}
FnHints == {NoneStr, "", "en", "es"}

TranslateCalls == [fn : {"translate_text"}, text : FnTexts, source_lang : FnLanguages, target_lang : FnTargets, outcome : TranslatorOutcomes, done : {FALSE}]

SpeechCalls == [fn : {"generate_speech"}, text : FnTexts, voice_type : FnVoices, language : FnHints, detect : DetectOutcomes, gtts : GttsOutcomes, done : {FALSE}]

InitFn ==
    /\ user = NoUser
    /\ conversation_history = << >>
    /\ message_counter = 0
    /\ active_decoding = FALSE
    /\ logs = << >>
    /\ last = Idle
    /\ users = << >>
    /\ sess = NoSessions
    /\ pending = NoPending
    /\ \/ call \in TranslateCalls
       \/ call \in SpeechCalls

call_translate_text ==
    /\ call.fn = "translate_text"
    /\ ~call.done
    /\ call' = [fn |-> call.fn, text |-> call.text, source_lang |-> call.source_lang,
                target_lang |-> call.target_lang, outcome |-> call.outcome, done |-> TRUE,
                res |-> translate_text(call.text, call.source_lang, call.target_lang,
                                       call.outcome)]
    /\ UNCHANGED <<user, conversation_history, message_counter, active_decoding, logs, last>>
    /\ UNCHANGED <<users, sess, pending>>

call_generate_speech ==
    /\ call.fn = "generate_speech"
    /\ ~call.done
    /\ call' = [fn |-> call.fn, text |-> call.text, voice_type |-> call.voice_type,
                language |-> call.language, detect |-> call.detect, gtts |-> call.gtts,
                done |-> TRUE,
                res |-> generate_speech(call.text, call.voice_type, call.language,
                                        call.detect, call.gtts)]
    /\ UNCHANGED <<user, conversation_history, message_counter, active_decoding, logs, last>>
    /\ UNCHANGED <<users, sess, pending>>

NextFn ==
    \/ call_translate_text
    \/ call_generate_speech

SpecFn == InitFn /\ [][NextFn]_vars

Translated == call.fn = "translate_text" /\ call.done
Synthesized == call.fn = "generate_speech" /\ call.done

----------------------------------------------------------------------------
\* auth.py and table users of database.py: sign up, log in, log out from
\* several browser sessions; every query and every commit is one step

DEFAULT_SOURCE_LANGUAGE == "en"
DEFAULT_TARGET_LANGUAGE == "es"
MinPasswordLength == 6

Sessions == {"s1", "s2"}
Usernames == {"ann", "bob"}
Emails == {"ann@x.org", "bob@x.org"}
Password1 == <<"s", "e", "c", "r", "e", "t">>
Password2 == <<"h", "u", "n", "t", "e", "r">>
ShortPassword == <<"a", "b", "c">>

\* hashlib.sha256(password.encode()).hexdigest(), taken as free of collisions
hash_password(password) == <<"sha256">> \o password

\* mutant: every password is accepted
verify_password_any(plain_password, hashed_password) == TRUE

verify_password(plain_password, hashed_password) == hash_password(plain_password) = hashed_password

\* x or d
OrDefault(x, d) == IF x = NoneStr \/ x = "" THEN d ELSE x

\* User(username=..., ...) of create_user, with the id the insert gives it
NewUser(id, username, email, password, native_language, target_language, voice_type) == [id |-> id, username |-> username, email |-> email, hashed_password |-> hash_password(password), native_language |-> OrDefault(native_language, DEFAULT_SOURCE_LANGUAGE), target_language |-> OrDefault(target_language, DEFAULT_TARGET_LANGUAGE), voice_type |-> OrDefault(voice_type, "default")]

\* db.query(User).filter(User.username == username).first()
first_by_username(table, username) ==
    IF \E i \in 1..Len(table) : table[i].username = username
    THEN table[CHOOSE i \in 1..Len(table) :
                   /\ table[i].username = username
                   /\ \A j \in 1..(i - 1) : table[j].username # username]
    ELSE NoUser

\* db.query(User).filter(User.email == email).first()
first_by_email(table, email) ==
    IF \E i \in 1..Len(table) : table[i].email = email
    THEN table[CHOOSE i \in 1..Len(table) :
                   /\ table[i].email = email
                   /\ \A j \in 1..(i - 1) : table[j].email # email]
    ELSE NoUser

\* mutant: the columns carry no unique index
NoUniqueIndex(table, row) == FALSE

\* username = Column(String, unique=True), email = Column(String, unique=True)
UniqueViolation(table, row) == \E i \in 1..Len(table) : table[i].username = row.username \/ table[i].email = row.email

\* db.add(new_user); db.commit(): the insert fails on a unique index or when the
\* database does; the table is then as before
db_commit_user(table, row, db) ==
    IF db = "fail" \/ UniqueViolation(table, row)
    THEN [exc |-> TRUE, table |-> table]
    ELSE [exc |-> FALSE, table |-> Append(table, row)]

\* the primary key of the next row
NextUserId(table) == Len(table) + 1

\* a return of create_user: the value, the table, and the statement it left from
Created(exc, val, table, at) == [exc |-> exc, val |-> val, table |-> table, at |-> at]

\* mutant: add and commit run outside the try block
create_user_commit_uncaught(table, form, db) ==
    LET new_user == NewUser(NextUserId(table), form.username, form.email, form.password,
                            form.native_language, form.target_language, form.voice_type)
        r == db_commit_user(table, new_user, db)
    IN IF r.exc THEN Created(TRUE, NoUser, r.table, "raised")
       ELSE Created(FALSE, new_user, r.table, "created")

\* create_user from `new_user = User(...)` on: add, commit, refresh, or rollback
create_user_commit(table, form, db) ==
    LET new_user == NewUser(NextUserId(table), form.username, form.email, form.password,
                            form.native_language, form.target_language, form.voice_type)
        r == db_commit_user(table, new_user, db)
    IN IF r.exc THEN Created(FALSE, NoUser, table, "rollback")
       ELSE Created(FALSE, new_user, r.table, "created")

authenticate_user(table, username, password, db) ==
    IF db = "fail" THEN Ret(NoUser)
    ELSE LET usr == first_by_username(table, username)
         IN IF usr = NoUser THEN Ret(NoUser)
            ELSE IF verify_password(password, usr.hashed_password) THEN Ret(usr)
            ELSE Ret(NoUser)

\* the JWT of login_user: its payload
NoToken == [user_id |-> 0, username |-> NoneStr]
login_user(usr) == [user_id |-> usr.id, username |-> usr.username]

NoForm == [username |-> NoneStr]
SignupForms == [username : Usernames, email : Emails, password : {Password1, ShortPassword}, confirm_password : {Password1, ShortPassword}, native_language : {"en"}, target_language : {"es"}, voice_type : {"default"}]
LoginForms == [username : Usernames, password : {Password1, Password2}]

\* st.session_state of a session that shows the login and signup forms
LoggedOut == [user |-> NoUser, token |-> NoToken, pc |-> "idle", form |-> NoForm]

\* what the observer keeps of a finished signup, login or logout: the session,
\* the form, the value returned, the table and the database's answer at that step
Finished(op, s, form, exc, val, at, table, db) == [op |-> op, s |-> s, form |-> form, exc |-> exc, val |-> val, at |-> at, table |-> table, db |-> db]

\* st.session_state.user = user; st.session_state.token = login_user(user),
\* only when a user came back
LoggedIn(s, r) ==
    IF ~r.exc /\ r.val # NoUser
    THEN [sess EXCEPT ![s] = [user |-> r.val, token |-> login_user(r.val),
                              pc |-> "idle", form |-> NoForm]]
    ELSE [sess EXCEPT ![s] = [user |-> sess[s].user, token |-> sess[s].token,
                              pc |-> "idle", form |-> NoForm]]

pipeline == <<user, conversation_history, message_counter, active_decoding, logs, call, pending>>

InitAuth ==
    /\ user = NoUser
    /\ conversation_history = << >>
    /\ message_counter = 0
    /\ active_decoding = FALSE
    /\ logs = << >>
    /\ call = NoCall
    /\ last = Idle
    /\ users = << >>
    /\ sess = [s \in Sessions |-> LoggedOut]
    /\ pending = NoPending

\* "Sign Up" pressed: the two password checks, then create_user is entered
signup_form(s, form) ==
    /\ sess[s].user = NoUser
    /\ sess[s].pc = "idle"
    /\ IF form.password # form.confirm_password
       THEN /\ last' = Finished("signup", s, form, FALSE, NoUser, "mismatch", users, "ok")
            /\ UNCHANGED sess
       ELSE IF Len(form.password) < MinPasswordLength
       THEN /\ last' = Finished("signup", s, form, FALSE, NoUser, "short", users, "ok")
            /\ UNCHANGED sess
       ELSE /\ sess' = [sess EXCEPT ![s].pc = "check_username", ![s].form = form]
            /\ UNCHANGED last
    /\ UNCHANGED users
    /\ UNCHANGED pipeline

\* create_user returns None from the username check, the email check or the
\* except block; signup_form then shows "Username or email already exists"
create_user_none(s, at, db) ==
    /\ sess' = LoggedIn(s, Ret(NoUser))
    /\ last' = Finished("signup", s, sess[s].form, FALSE, NoUser, at, users, db)
    /\ UNCHANGED users

\* existing_user = db.query(User).filter(User.username == username).first()
create_user_check_username(s, db) ==
    /\ sess[s].pc = "check_username"
    /\ IF db = "fail" THEN create_user_none(s, "rollback", db)
       ELSE IF first_by_username(users, sess[s].form.username) # NoUser
       THEN create_user_none(s, "username", db)
       ELSE /\ sess' = [sess EXCEPT ![s].pc = "check_email"]
            /\ UNCHANGED <<users, last>>
    /\ UNCHANGED pipeline

\* existing_email = db.query(User).filter(User.email == email).first()
create_user_check_email(s, db) ==
    /\ sess[s].pc = "check_email"
    /\ IF db = "fail" THEN create_user_none(s, "rollback", db)
       ELSE IF first_by_email(users, sess[s].form.email) # NoUser
       THEN create_user_none(s, "email", db)
       ELSE /\ sess' = [sess EXCEPT ![s].pc = "commit"]
            /\ UNCHANGED <<users, last>>
    /\ UNCHANGED pipeline

\* db.add, db.commit, db.refresh; back in signup_form the session is logged in
create_user_add_commit(s, db) ==
    /\ sess[s].pc = "commit"
    /\ LET r == create_user_commit(users, sess[s].form, db)
       IN /\ users' = r.table
          /\ sess' = LoggedIn(s, r)
          /\ last' = Finished("signup", s, sess[s].form, r.exc, r.val, r.at, users, db)
    /\ UNCHANGED pipeline

\* "Login" pressed
login_form(s, form, db) ==
    /\ sess[s].user = NoUser
    /\ sess[s].pc = "idle"
    /\ LET r == authenticate_user(users, form.username, form.password, db)
       IN /\ sess' = LoggedIn(s, r)
          /\ last' = Finished("login", s, form, r.exc, r.val, "login", users, db)
    /\ UNCHANGED users
    /\ UNCHANGED pipeline

\* "Logout" pressed
logout(s) ==
    /\ sess[s].user # NoUser
    /\ sess[s].pc = "idle"
    /\ sess' = [sess EXCEPT ![s] = LoggedOut]
    /\ last' = Finished("logout", s, NoForm, FALSE, NoUser, "logout", users, "ok")
    /\ UNCHANGED users
    /\ UNCHANGED pipeline

NextAuth ==
    \/ \E s \in Sessions, form \in SignupForms : signup_form(s, form)
    \/ \E s \in Sessions, db \in DbOutcomes : create_user_check_username(s, db)
    \/ \E s \in Sessions, db \in DbOutcomes : create_user_check_email(s, db)
    \/ \E s \in Sessions, db \in DbOutcomes : create_user_add_commit(s, db)
    \/ \E s \in Sessions, form \in LoginForms, db \in DbOutcomes : login_form(s, form, db)
    \/ \E s \in Sessions : logout(s)

SpecAuth == InitAuth /\ [][NextAuth]_vars

----------------------------------------------------------------------------
\* save_conversation_log called from the sessions of two users at once: db.add
\* and db.commit are separate steps, each call has the database session that
\* get_db made for it

\* mutant: every call uses one module-level database session
get_db_shared(s) == "shared"

\* db = SessionLocal(): the database session of the call that session s runs
get_db(s) == s

DbSessions == Sessions \cup {"shared"}

Ann == NewUser(1, "ann", "ann@x.org", Password1, "en", "es", "default")
Bob == NewUser(2, "bob", "bob@x.org", Password1, "es", "en", "female")

\* a session in conversation mode: its user, where its save_conversation_log
\* stands, the turns it has appended, and the entries it committed itself
Conversing(usr) == [user |-> usr, token |-> login_user(usr), pc |-> "idle", turns |-> 0, entry |-> NoUser, wrote |-> << >>]

LogText == <<"hello">>
LogDirections == {"outgoing", "incoming"}

\* rows of a commit get the next primary keys, in the order they were added
Flush(table, rows) == [i \in 1..(Len(table) + Len(rows)) |-> IF i <= Len(table) THEN table[i] ELSE [rows[i - Len(table)] EXCEPT !.id = i]]

\* db.commit(): all rows added to the database session, or none
db_commit(table, rows, db) ==
    IF db = "ok" THEN [exc |-> FALSE, table |-> Flush(table, rows)]
    ELSE [exc |-> TRUE, table |-> table]

InitLog ==
    /\ user = NoUser
    /\ conversation_history = << >>
    /\ message_counter = 0
    /\ active_decoding = FALSE
    /\ call = NoCall
    /\ last = Idle
    /\ logs = << >>
    /\ users = <<Ann, Bob>>
    /\ sess = [s \in Sessions |-> IF s = "s1" THEN Conversing(Ann) ELSE Conversing(Bob)]
    /\ pending = [k \in DbSessions |-> << >>]

\* save_conversation_log up to db.add(log_entry); the turn is in the history
save_add(s, direction) ==
    /\ sess[s].pc = "idle"
    /\ sess[s].user # NoUser
    /\ sess[s].turns < MaxTurns
    /\ LET usr == sess[s].user
           translated_text == LogText \o <<usr.native_language, usr.target_language>>
           audio_file_path == [uid |-> usr.id, direction |-> direction,
                               index |-> sess[s].turns + 1]
           log_entry == ConversationLog(0, usr.id, direction, LogText, translated_text,
                                        audio_file_path)
       IN /\ pending' = [pending EXCEPT ![get_db(s)] = Append(@, log_entry)]
          /\ sess' = [sess EXCEPT ![s].pc = "added", ![s].turns = @ + 1,
                                  ![s].entry = log_entry]
    /\ UNCHANGED <<user, conversation_history, message_counter, active_decoding>>
    /\ UNCHANGED <<logs, last, users, call>>

\* db.commit() and return True, or the except branch: db.rollback(), return False
save_commit(s, db) ==
    /\ sess[s].pc = "added"
    /\ LET r == db_commit(logs, pending[get_db(s)], db)
       IN /\ logs' = r.table
          /\ pending' = [pending EXCEPT ![get_db(s)] = << >>]
          /\ sess' = [sess EXCEPT ![s].pc = "idle", ![s].entry = NoUser,
                                  ![s].wrote = IF r.exc THEN @
                                               ELSE Append(@, sess[s].entry)]
          /\ last' = [op |-> "save", s |-> s, ok |-> ~r.exc, table |-> logs]
    /\ UNCHANGED <<user, conversation_history, message_counter, active_decoding>>
    /\ UNCHANGED <<users, call>>

NextLog ==
    \/ \E s \in Sessions, direction \in LogDirections : save_add(s, direction)
    \/ \E s \in Sessions, db \in DbOutcomes : save_commit(s, db)

SpecLog == InitLog /\ [][NextLog]_vars

----------------------------------------------------------------------------
\* app.py: one browser session that signs up, logs in and out, flips the
\* "Enable Translation" toggle and uses the Settings page; `user` is
\* st.session_state.user, the object create_user or authenticate_user returned
\* after its database session was closed

VoiceTypes == {"default", "female"}

\* list.index(x): the position of x, or ValueError
list_index(list, x) == IF x \in list THEN Ret(x) ELSE Raise

\* create_user as one call: the two checks, then add and commit
create_user(table, form, db) ==
    IF db = "fail" THEN Created(FALSE, NoUser, table, "rollback")
    ELSE IF first_by_username(table, form.username) # NoUser
    THEN Created(FALSE, NoUser, table, "username")
    ELSE IF first_by_email(table, form.email) # NoUser
    THEN Created(FALSE, NoUser, table, "email")
    ELSE create_user_commit(table, form, db)

\* the target languages the signup form offers: the supported ones and "none",
\* or the chosen native language when translation is disabled
signup_targets(translation_enabled, native_language) ==
    IF translation_enabled THEN SUPPORTED_LANGUAGES \cup {"none"} ELSE {native_language}

\* the target languages the Settings page submits: a supported one, or the
\* native language the user holds when translation is disabled
settings_targets(translation_enabled, usr) ==
    IF translation_enabled THEN SUPPORTED_LANGUAGES ELSE {usr.native_language}

\* the signup forms of one person: every target the form offers
AppForms(translation_enabled) == {f \in [username : {"ann"}, email : {"ann@x.org"}, password : {Password1}, confirm_password : {Password1}, native_language : {"en", "es"}, target_language : SUPPORTED_LANGUAGES \cup {"none"}, voice_type : {"default"}] : f.target_language \in signup_targets(translation_enabled, f.native_language)}

\* the three lookups that draw the selectboxes of the Settings page
settings_render(usr, translation_enabled) ==
    LET native == list_index(SUPPORTED_LANGUAGES, usr.native_language)
        target == list_index(SUPPORTED_LANGUAGES, usr.target_language)
        voice == list_index({"default", "male", "female"}, usr.voice_type)
    IN IF native.exc THEN Raise
       ELSE IF translation_enabled /\ target.exc THEN Raise
       ELSE IF voice.exc THEN Raise
       ELSE Ret(NoneText)

\* db.commit() on the session get_db has just made: the user object was loaded
\* by a session that is closed and is not added to this one, so nothing is written
settings_commit(table, usr, db) ==
    IF db = "ok" THEN [exc |-> FALSE, table |-> table]
    ELSE [exc |-> TRUE, table |-> table]

\* what the observer keeps of a run of settings()
SettingsRun(op, raised, ok, submitted) == [op |-> op, raised |-> raised, ok |-> ok, submitted |-> submitted]

NoPreferences == [native_language |-> NoneStr, target_language |-> NoneStr, voice_type |-> NoneStr]

\* the preferences of a user object or of a row
Preferences(usr) == [native_language |-> usr.native_language, target_language |-> usr.target_language, voice_type |-> usr.voice_type]

Browser == "s1"

InitApp ==
    /\ user = NoUser
    /\ conversation_history = << >>
    /\ message_counter = 0
    /\ active_decoding = TRUE
    /\ logs = << >>
    /\ call = NoCall
    /\ pending = NoPending
    /\ last = Idle
    /\ users = << >>
    /\ sess = [token |-> NoToken, translation_enabled |-> TRUE]

conversation == <<conversation_history, message_counter, active_decoding, logs, call, pending>>

\* "Sign Up" pressed in the sidebar form
app_signup(form, db) ==
    /\ user = NoUser
    /\ IF form.password # form.confirm_password \/ Len(form.password) < MinPasswordLength
       THEN /\ last' = Finished("signup", Browser, form, FALSE, NoUser, "rejected", users, db)
            /\ UNCHANGED <<user, users, sess>>
       ELSE LET r == create_user(users, form, db)
            IN /\ users' = r.table
               /\ user' = IF ~r.exc /\ r.val # NoUser THEN r.val ELSE user
               /\ sess' = IF ~r.exc /\ r.val # NoUser
                          THEN [sess EXCEPT !.token = login_user(r.val)] ELSE sess
               /\ last' = Finished("signup", Browser, form, r.exc, r.val, r.at, users, db)
    /\ UNCHANGED conversation

\* "Login" pressed in the sidebar form
app_login(form, db) ==
    /\ user = NoUser
    /\ LET r == authenticate_user(users, form.username, form.password, db)
       IN /\ user' = IF ~r.exc /\ r.val # NoUser THEN r.val ELSE user
          /\ sess' = IF ~r.exc /\ r.val # NoUser
                     THEN [sess EXCEPT !.token = login_user(r.val)] ELSE sess
          /\ last' = Finished("login", Browser, form, r.exc, r.val, "login", users, db)
    /\ UNCHANGED users
    /\ UNCHANGED conversation

\* "Logout" pressed in the sidebar
app_logout ==
    /\ user # NoUser
    /\ user' = NoUser
    /\ sess' = [sess EXCEPT !.token = NoToken]
    /\ last' = Finished("logout", Browser, NoForm, FALSE, NoUser, "logout", users, "ok")
    /\ UNCHANGED users
    /\ UNCHANGED conversation

\* the "Enable Translation" toggle of the sidebar is flipped
toggle_translation ==
    /\ sess' = [sess EXCEPT !.translation_enabled = ~@]
    /\ last' = SettingsRun("toggle", FALSE, FALSE, NoPreferences)
    /\ UNCHANGED <<user, users>>
    /\ UNCHANGED conversation

\* the Settings page is opened: settings() runs without a button pressed
open_settings ==
    /\ user # NoUser
    /\ last' = SettingsRun("settings", settings_render(user, sess.translation_enabled).exc,
                           FALSE, NoPreferences)
    /\ UNCHANGED <<user, users, sess>>
    /\ UNCHANGED conversation

\* "Update Preferences" pressed on a Settings page that was drawn
update_preferences(native_language, target_language, voice_type, db) ==
    /\ user # NoUser
    /\ ~settings_render(user, sess.translation_enabled).exc
    /\ target_language \in settings_targets(sess.translation_enabled, user)
    /\ LET r == settings_commit(users, user, db)
           submitted == [native_language |-> native_language,
                         target_language |-> target_language, voice_type |-> voice_type]
       IN /\ user' = [user EXCEPT !.native_language = native_language,
                                  !.target_language = target_language,
                                  !.voice_type = voice_type]
          /\ users' = r.table
          /\ last' = SettingsRun("update", FALSE, ~r.exc, submitted)
    /\ UNCHANGED sess
    /\ UNCHANGED conversation

NextApp ==
    \/ \E form \in AppForms(sess.translation_enabled), db \in DbOutcomes : app_signup(form, db)
    \/ \E form \in LoginForms, db \in DbOutcomes : app_login(form, db)
    \/ app_logout
    \/ toggle_translation
    \/ open_settings
    \/ \E n \in SUPPORTED_LANGUAGES, t \in SUPPORTED_LANGUAGES, v \in VoiceTypes, db \in DbOutcomes : update_preferences(n, t, v, db)

SpecApp == InitApp /\ [][NextApp]_vars

----------------------------------------------------------------------------
\* conversation mode in a browser session whose user logs out and in again and
\* flips the "Enable Translation" toggle; two users are stored

InitSession ==
    /\ user = NoUser
    /\ conversation_history = << >>
    /\ message_counter = 0
    /\ active_decoding = TRUE
    /\ logs = << >>
    /\ call = NoCall
    /\ pending = NoPending
    /\ last = Idle
    /\ users = <<Ann, Bob>>
    /\ sess = [token |-> NoToken, translation_enabled |-> TRUE]

\* the two stored users log in with their passwords
SessionLogins == {[username |-> "ann", password |-> Password1], [username |-> "bob", password |-> Password1]}

NextSession ==
    \/ \E form \in SessionLogins : app_login(form, "ok")
    \/ app_logout
    \/ toggle_translation
    \/ ClickOutgoing
    \/ ClickIncoming
    \/ SendManual

SpecSession == InitSession /\ [][NextSession]_vars

----------------------------------------------------------------------------
\* conversation_interface with the "Active Decoding" toggle: every script run
\* that does not end in st.rerun() goes on to line 230 and translates what is
\* in the manual text box into the native language

GateUsers == {User(1, "es", "en", "female")}

\* turns produced in a session of this specification
MaxGateTurns == 1
BoxTexts == ManualTexts \cup {EmptyText}

\* mutant: the button decodes whatever the toggle says
decoding_always(active) == TRUE

\* `if st.session_state.active_decoding:` under the outgoing button
decoding_allowed(active) == active

\* what the observer keeps of a run that met the st.warning of the toggle:
\* the translate_text call of line 230 and the state before the press
Blocked(preview) == [op |-> "blocked", heard |-> NoneText, translations |-> <<[text |-> preview.call.text, source_lang |-> preview.call.source_lang, target_lang |-> preview.call.target_lang, report |-> preview.call.report, called |-> preview.res.called]>>, speech |-> << >>, writes |-> << >>, raised |-> preview.res.exc, len0 |-> Len(conversation_history), counter0 |-> message_counter, logs0 |-> logs]

InitGate ==
    /\ user \in GateUsers
    /\ conversation_history = << >>
    /\ message_counter = 0
    /\ active_decoding = TRUE
    /\ logs = << >>
    /\ last = Idle
    /\ users = << >>
    /\ sess = NoSessions
    /\ call = NoCall
    /\ pending = NoPending

\* "Simulate Your Message (EEG/EMG)" pressed, with manual_text in the text box
press_outgoing(manual_text, outcome0) ==
    /\ user # NoUser
    /\ Len(conversation_history) < MaxTurns
    /\ IF decoding_allowed(active_decoding)
       THEN /\ Len(conversation_history) < MaxGateTurns
            /\ \E reading \in Readings, outcome \in PipelineOutcomes,
                  detect \in DetectOutcomes, gtts \in GttsOutcomes, db \in DbOutcomes :
                   simulate_outgoing_message(reading, outcome, detect, gtts, db)
       ELSE /\ last' = Blocked(manual_to_native(manual_text, user, outcome0))
            /\ UNCHANGED <<user, conversation_history, message_counter, active_decoding, logs>>
            /\ UNCHANGED others

\* the "Active Decoding" toggle is flipped; the observer forgets the last run
gate_toggle ==
    /\ user # NoUser
    /\ active_decoding' = ~active_decoding
    /\ last' = Observed("toggle", NoneText, << >>, << >>, << >>, FALSE)
    /\ UNCHANGED <<user, conversation_history, message_counter, logs>>
    /\ UNCHANGED others

\* "Simulate Partner Message (Speech)" pressed
gate_incoming ==
    /\ Len(conversation_history) < MaxGateTurns
    /\ ClickIncoming

\* "Send Manual Message" pressed with text in the box
gate_manual ==
    /\ Len(conversation_history) < MaxGateTurns
    /\ SendManual

NextGate ==
    \/ \E manual_text \in BoxTexts, outcome0 \in PipelineOutcomes : press_outgoing(manual_text, outcome0)
    \/ gate_incoming
    \/ gate_manual
    \/ gate_toggle

SpecGate == InitGate /\ [][NextGate]_vars

----------------------------------------------------------------------------
\* Properties

PipelineOps == {"outgoing", "incoming", "manual"}

LastTurn == conversation_history[Len(conversation_history)]

\* the last operation appended one turn and advanced the counter by one
AppendedOne ==
    /\ Len(conversation_history) = last.len0 + 1
    /\ message_counter = last.counter0 + 1

FinalTranslation == last.translations[Len(last.translations)]

\* C1: every call of simulate_outgoing_message appends a turn of sender "You" whose
\* sequence number is greater than that of every turn appended before it in the
\* session, whatever the Translator and the Synthesizer answered.
C1_OutgoingSelfIncreasing ==
    last.op = "outgoing" =>
        /\ ~last.raised
        /\ Len(conversation_history) = last.len0 + 1
        /\ LastTurn.sender = "You"
        /\ \A i \in 1..(Len(conversation_history) - 1) :
               conversation_history[i].timestamp < LastTurn.timestamp

\* a second outgoing call, after an earlier outgoing turn, with both services failing
C1_Witness ==
    /\ last.op = "outgoing"
    /\ Len(conversation_history) = 2
    /\ conversation_history[1].sender = "You"
    /\ conversation_history[1].confidence < 100
    /\ last.translations[1].report = "failed"
    /\ last.speech[1].failed

\* C2: when the write of the log entry fails, the turn of that operation is still
\* the last element of the history and the counter has advanced by one, and the
\* operation returns normally.
C2_FailedWriteKeepsTurn ==
    (last.op \in PipelineOps /\ last.writes # << >> /\ ~last.writes[1].saved) =>
        /\ ~last.raised
        /\ AppendedOne
        /\ LastTurn.timestamp = last.counter0
        /\ LastTurn.translated = last.writes[1].translated_text
        /\ LastTurn.translated = FinalTranslation.text
           \/ LastTurn.translated = FinalTranslation.text
                                    \o <<FinalTranslation.source_lang,
                                         FinalTranslation.target_lang>>

\* a failed write after each kind of operation is covered by three witnesses in one:
\* here the manual turn whose write failed while an earlier write had succeeded
C2_Witness ==
    /\ last.op = "manual"
    /\ last.writes # << >>
    /\ ~last.writes[1].saved
    /\ Len(conversation_history) = 2
    /\ Len(logs) = 1

\* C3: no operation of the pipeline raises; a failed translation leaves the turn's
\* translated text equal to its original text, a failed synthesis leaves its audio
\* absent, and in both cases the turn is appended and one log write is attempted.
C3_BestEffort ==
    last.op \in PipelineOps =>
        /\ ~last.raised
        /\ AppendedOne
        /\ Len(last.writes) = 1
        /\ FinalTranslation.report = "failed" => LastTurn.translated = LastTurn.original
        /\ last.speech[1].failed => LastTurn.audio = NoneText

C3_Witness ==
    /\ last.op = "incoming"
    /\ FinalTranslation.report = "failed"
    /\ user.native_language # user.target_language
    /\ last.speech[1].failed
    /\ LastTurn.translated = LastTurn.original
    /\ LastTurn.audio = NoneText

\* C4: an outgoing turn is {sender: You, original: phrase, translated: T,
\* confidence: confidence} for the reading (phrase, confidence) of the Signal Source
\* and the Translator's answer T; the phrase is translated once, native to target.
C4_OutgoingTurn ==
    last.op = "outgoing" =>
        /\ LastTurn.sender = "You"
        /\ \E reading \in Readings :
               /\ LastTurn.original = reading.phrase
               /\ LastTurn.confidence = reading.confidence
        /\ Len(last.translations) = 1
        /\ last.translations[1].text = LastTurn.original
        /\ last.translations[1].source_lang = user.native_language
        /\ last.translations[1].target_lang = user.target_language
        /\ last.translations[1].report = "ok" =>
               LastTurn.translated =
                   LastTurn.original \o <<user.native_language, user.target_language>>

\* the scenario of the specification: en to es, ("I need help", 0.85)
C4_Witness ==
    /\ last.op = "outgoing"
    /\ user.native_language = "en"
    /\ user.target_language = "es"
    /\ LastTurn.sender = "You"
    /\ LastTurn.original = <<"I need help">>
    /\ LastTurn.translated = <<"I need help", "en", "es">>
    /\ LastTurn.confidence = 85

\* C5 (as claimed): the language the Synthesizer runs with is the user's target
\* language for an outgoing or manual turn and the user's native language for an
\* incoming turn, whenever that language is one of the supported languages.
C5_SynthesizerLanguage ==
    (last.op \in PipelineOps /\ ~Falsy(last.speech[1].text)) =>
        LET configured == IF last.op = "incoming" THEN user.native_language
                          ELSE user.target_language
        IN configured \in SUPPORTED_LANGUAGES => last.speech[1].gtts_lang = configured

\* C6: when the transcription is absent, the incoming turn's original text is the
\* fallback string, its translated text is translate_text(fallback, target, native),
\* and the turn is appended and its log write attempted.
C6_TranscriptionFallback ==
    (last.op = "incoming" /\ Falsy(last.heard)) =>
        /\ AppendedOne
        /\ LastTurn.sender = "Partner"
        /\ LastTurn.original = FallbackText
        /\ last.translations =
               <<[text |-> FallbackText, source_lang |-> user.target_language,
                  target_lang |-> user.native_language,
                  report |-> last.translations[1].report]>>
        /\ LastTurn.translated =
               IF last.translations[1].report = "ok"
               THEN FallbackText \o <<user.target_language, user.native_language>>
               ELSE FallbackText
        /\ Len(last.writes) = 1
        /\ last.writes[1].original_text = FallbackText
        /\ last.writes[1].translated_text = LastTurn.translated

C6_Witness ==
    /\ last.op = "incoming"
    /\ Falsy(last.heard)
    /\ LastTurn.original = FallbackText
    /\ LastTurn.translated = FallbackText \o <<"en", "es">>
    /\ logs # << >>
    /\ logs[Len(logs)].original_text = FallbackText

\* C7: the incoming operation translates target to native, appends one turn of
\* sender "Partner", advances the counter by one and attempts one log write of
\* direction "incoming"; outgoing and manual turns are written as "outgoing".
C7_IncomingSymmetric ==
    /\ last.op = "incoming" =>
           /\ Len(last.translations) = 1
           /\ last.translations[1].text = LastTurn.original
           /\ last.translations[1].source_lang = user.target_language
           /\ last.translations[1].target_lang = user.native_language
           /\ AppendedOne
           /\ LastTurn.sender = "Partner"
           /\ Len(last.writes) = 1
           /\ last.writes[1].direction = "incoming"
    /\ last.op \in {"outgoing", "manual"} =>
           /\ AppendedOne
           /\ LastTurn.sender = "You"
           /\ Len(last.writes) = 1
           /\ last.writes[1].direction = "outgoing"
    /\ (last.op \in PipelineOps /\ last.writes # << >> /\ last.writes[1].saved) =>
           logs[Len(logs)].direction = last.writes[1].direction

C7_Witness ==
    /\ last.op = "incoming"
    /\ user.native_language = "en"
    /\ user.target_language = "es"
    /\ last.translations[1].report = "ok"
    /\ Len(conversation_history) = 2
    /\ conversation_history[1].sender = "You"
    /\ Len(logs) = 2
    /\ logs[1].direction = "outgoing"
    /\ logs[2].direction = "incoming"

\* C8: a manual turn comes from a non-empty typed text, translated first from the
\* base language to the native language and then, the result of that, from native
\* to target; audio is synthesized from the final text and one "You" turn appended.
C8_ManualDoubleTranslation ==
    last.op = "manual" =>
        /\ Len(last.translations) = 2
        /\ ~Falsy(last.translations[1].text)
        /\ last.translations[1].source_lang = ManualBaseLanguage
        /\ last.translations[1].target_lang = user.native_language
        /\ last.translations[2].text =
               IF last.translations[1].report = "ok"
               THEN last.translations[1].text \o <<ManualBaseLanguage, user.native_language>>
               ELSE last.translations[1].text
        /\ last.translations[2].source_lang = user.native_language
        /\ last.translations[2].target_lang = user.target_language
        /\ LastTurn.translated =
               IF last.translations[2].report = "ok"
               THEN last.translations[2].text \o <<user.native_language, user.target_language>>
               ELSE last.translations[2].text
        /\ Len(last.speech) = 1
        /\ last.speech[1].text = LastTurn.translated
        /\ AppendedOne
        /\ LastTurn.sender = "You"

\* both translations succeed: es native, en target
C8_Witness ==
    /\ last.op = "manual"
    /\ last.translations[1].report = "ok"
    /\ last.translations[2].report = "ok"
    /\ LastTurn.original = <<"hello", "en", "es">>
    /\ LastTurn.translated = <<"hello", "en", "es", "es", "en">>
    /\ LastTurn.audio # NoneText

\* C9 (as claimed): the log entry of an exchange carries the original and the
\* translated text of the turn appended in the same operation.
C9_LogEntryFromTurn ==
    (last.op \in PipelineOps /\ last.writes # << >>) =>
        /\ last.writes[1].original_text = LastTurn.original
        /\ last.writes[1].translated_text = LastTurn.translated
        /\ last.writes[1].saved =>
               /\ logs[Len(logs)].original_text = LastTurn.original
               /\ logs[Len(logs)].translated_text = LastTurn.translated

IsPrefix(s, t) == Len(s) <= Len(t) /\ SubSeq(t, 1, Len(s)) = s

\* C10: the conversation log only grows by suffix: every step leaves the stored rows
\* as they were, a successful append adds exactly one row after them, holding the
\* user id and the texts it was written with, under the next id (insertion order),
\* and a step without a successful append leaves the table unchanged.
C10_AppendOnly ==
    [][/\ IsPrefix(logs, logs')
       /\ \A i \in 1..Len(logs') : logs'[i].id = i
       /\ IF last' # last /\ last'.writes # << >> /\ last'.writes[1].saved
          THEN /\ Len(logs') = Len(logs) + 1
               /\ logs'[Len(logs')].user_id = user.id
               /\ logs'[Len(logs')].direction = last'.writes[1].direction
               /\ logs'[Len(logs')].original_text = last'.writes[1].original_text
               /\ logs'[Len(logs')].translated_text = last'.writes[1].translated_text
          ELSE logs' = logs]_vars

\* two appends with different texts, read back in insertion order
C10_Witness ==
    /\ Len(logs) = 2
    /\ logs[1].id = 1
    /\ logs[2].id = 2
    /\ logs[1].user_id = user.id
    /\ logs[2].user_id = user.id
    /\ logs[1].original_text # logs[2].original_text
    /\ logs[1].translated_text # logs[1].original_text

----------------------------------------------------------------------------
\* translate_text and generate_speech as functions (checked under SpecFn)

\* C12: translate_text(t, L, L) returns t unchanged and does not raise, for
\* every text t and every language L.
C12_SameLanguageIdentity ==
    (Translated /\ call.source_lang = call.target_lang)
        => (~call.res.exc /\ call.res.val = call.text)

C12_Witness ==
    /\ Translated
    /\ call.source_lang = "es" /\ call.target_lang = "es"
    /\ call.text = <<"hello">> /\ call.outcome = "ok"
    /\ call.res.val = <<"hello">>

\* C13: translate_text(t, L, "none") returns t unchanged and translator_service
\* is not called.
C13_SentinelTarget ==
    (Translated /\ call.target_lang = "none")
        => (~call.res.exc /\ call.res.val = call.text /\ ~call.res.called)

C13_Witness ==
    /\ Translated
    /\ call.target_lang = "none" /\ call.source_lang = "en"
    /\ call.text = <<"hello">> /\ call.outcome = "ok"
    /\ call.res.val = <<"hello">> /\ ~call.res.called

\* C14: translate_text("", s, t) returns "" for every s and t, supported or
\* not, does not raise and does not call translator_service.
C14_EmptyText ==
    (Translated /\ call.text = EmptyText)
        => (~call.res.exc /\ call.res.val = EmptyText /\ ~call.res.called)

C14_Witness ==
    /\ Translated
    /\ call.text = EmptyText
    /\ call.source_lang = "en" /\ call.target_lang = "es" /\ call.outcome = "ok"
    /\ call.res.val = EmptyText /\ ~call.res.called

\* C15: translate_text never raises; for an unsupported pair it returns the text
\* it was given and a warning is shown; when the model fails to load, the
\* inference throws or the model decodes to "", it returns the text it was given.
C15_NeverRaises ==
    Translated =>
        /\ ~call.res.exc
        /\ (/\ ~Falsy(call.text)
            /\ call.target_lang \notin {"no", "none"}
            /\ <<call.source_lang, call.target_lang>> \notin TRANSLATION_MODELS)
                => (call.res.val = call.text /\ call.res.ui = "warning")
        /\ (/\ <<call.source_lang, call.target_lang>> \in TRANSLATION_MODELS
            /\ call.outcome \in {"load_fail", "throw", "empty"})
                => call.res.val = call.text

C15_Witness ==
    /\ Translated
    /\ call.text = <<"hello">>
    /\ call.source_lang = "en" /\ call.target_lang = "es" /\ call.outcome = "throw"
    /\ call.res.called /\ call.res.val = <<"hello">> /\ ~call.res.exc

\* C16: generate_speech("", voice, language) returns None for every voice and
\* every language hint; neither tts_service.text_to_speech nor gTTS is called.
C16_EmptySpeech ==
    (Synthesized /\ call.text = EmptyText)
        => /\ ~call.res.exc
           /\ call.res.val = NoneText
           /\ ~call.res.called
           /\ call.res.lang = NoneStr

C16_Witness ==
    /\ Synthesized
    /\ call.text = EmptyText
    /\ call.voice_type = "female" /\ call.language = "es" /\ call.gtts = "ok"
    /\ call.res.val = NoneText /\ ~call.res.called

----------------------------------------------------------------------------
\* speech failures inside the pipeline (checked under Spec)

\* C17: when gTTS fails for a non-empty text, also after langdetect failed and
\* "en" was used instead, generate_speech returns None and does not raise, and
\* the pipeline operation that called it completes with a turn without audio.
C17_FailedSynthesis ==
    (last.op \in PipelineOps /\ Len(last.speech) = 1 /\ last.speech[1].failed)
        => /\ ~last.raised
           /\ AppendedOne
           /\ LastTurn.audio = NoneText
           /\ message_counter = last.counter0 + 1

C17_Witness ==
    /\ last.op = "outgoing"
    /\ last.speech[1].failed
    /\ LangOf(last.speech[1].text) = "es"
    /\ last.speech[1].gtts_lang = "en"
    /\ ~last.raised
    /\ LastTurn.translated = last.speech[1].text
    /\ LastTurn.audio = NoneText

----------------------------------------------------------------------------
\* sign up and log in (checked under SpecAuth)

\* the username or the email of the form belongs to a row of the table
InUse(table, form) == \E i \in 1..Len(table) : table[i].username = form.username \/ table[i].email = form.email

\* the rows of the table a login form matches: same username, same hash
Matching(table, form) == {i \in 1..Len(table) : table[i].username = form.username /\ table[i].hashed_password = hash_password(form.password)}

\* C18: a signup whose username or email belongs to a stored user produces no
\* user: create_user returns None and does not raise, table users is as it was,
\* and the session has no user and no token.
C18_DuplicateSignup ==
    (last.op = "signup" /\ InUse(last.table, last.form))
        => /\ ~last.exc
           /\ last.val = NoUser
           /\ users = last.table
           /\ sess[last.s].user = NoUser
           /\ sess[last.s].token = NoToken

C18_Witness ==
    /\ last.op = "signup"
    /\ last.at = "email"
    /\ last.db = "ok"
    /\ Len(users) = 1
    /\ users[1].email = last.form.email /\ users[1].username # last.form.username
    /\ last.val = NoUser
    /\ sess[last.s].user = NoUser

\* C19: no two rows of table users share a username and no two share an email,
\* in every state, whatever the interleaving of the steps of concurrent
\* create_user calls.
C19_UniqueUsers ==
    \A i, j \in 1..Len(users) :
        i # j => (users[i].username # users[j].username /\ users[i].email # users[j].email)

\* two signups with the same username passed both checks; the first committed,
\* the commit of the second met the unique index and was rolled back
C19_Witness ==
    /\ last.op = "signup"
    /\ last.at = "rollback"
    /\ last.db = "ok"
    /\ Len(users) = 1
    /\ users[1].username = last.form.username
    /\ users[1].email # last.form.email
    /\ last.val = NoUser

\* C20 as stated: authenticate_user returns the stored user exactly when a user
\* with that username exists and the hash of the password equals the stored one.
\* A query that fails returns None for a stored user with the right password.
C20_ExactlyWhen ==
    last.op = "login" => (last.val # NoUser <=> Matching(last.table, last.form) # {})

\* C20, amended: authenticate_user never raises; when its query succeeds it
\* returns the stored user exactly when a user with that username exists and
\* the hash of the password equals the stored hash; for an unknown username, a
\* wrong password or a failing query it returns None, and login_form leaves the
\* session without a user and without a token.
C20_Authenticate ==
    last.op = "login" =>
        /\ ~last.exc
        /\ (last.db = "ok" /\ Matching(last.table, last.form) # {})
               => (\E i \in Matching(last.table, last.form) : last.val = last.table[i])
        /\ (last.db = "fail" \/ Matching(last.table, last.form) = {})
               => last.val = NoUser
        /\ last.val = NoUser
               => (sess[last.s].user = NoUser /\ sess[last.s].token = NoToken)
        /\ last.val # NoUser
               => (sess[last.s].user = last.val /\ sess[last.s].token = login_user(last.val))

\* a login with the wrong password for a stored username
C20_Witness ==
    /\ last.op = "login"
    /\ last.db = "ok"
    /\ first_by_username(last.table, last.form.username) # NoUser
    /\ Matching(last.table, last.form) = {}
    /\ last.val = NoUser
    /\ sess[last.s].user = NoUser /\ sess[last.s].token = NoToken

----------------------------------------------------------------------------
\* conversation logs written by two users at once (checked under SpecLog)

\* the rows of a user in the table, in table order, without their primary keys
EntriesOf(table, user_id) ==
    LET Mine(row) == row.user_id = user_id
        rows == SelectSeq(table, Mine)
    IN [i \in 1..Len(rows) |-> [rows[i] EXCEPT !.id = 0]]

\* C11: under every interleaving of the add and commit steps of the sessions of
\* different users, the rows of a user in conversation_logs are exactly the
\* entries its own session committed, with that session's user id, unaltered
\* and in the order of its commits; an add of one user that was rolled back, or
\* is still open, changes nothing of this for the other users.
C11_NoInterference ==
    /\ \A s \in Sessions : EntriesOf(logs, sess[s].user.id) = sess[s].wrote
    /\ \A i \in 1..Len(logs) :
           /\ logs[i].id = i
           /\ \E s \in Sessions : logs[i].user_id = sess[s].user.id
    /\ \A s \in Sessions :
           \A i \in 1..Len(sess[s].wrote) : sess[s].wrote[i].user_id = sess[s].user.id

\* a rollback of one user while the other user's add is open, with entries of
\* both users already in the table
C11_Witness ==
    /\ last.op = "save"
    /\ ~last.ok
    /\ \E t \in Sessions : t # last.s /\ sess[t].pc = "added" /\ Len(sess[t].wrote) = 1
    /\ Len(sess[last.s].wrote) = 1
    /\ Len(logs) = 2
    /\ logs = last.table

----------------------------------------------------------------------------
\* the sequence counter of a session (checked under Spec)

\* C24: after any sequence of outgoing, incoming and manual operations the
\* counter equals the length of the history and the i-th turn, counted from 0,
\* carries sequence number i; every operation appended one turn and added one
\* to the counter, so no two turns share a sequence number.
C24_CounterIsLength ==
    /\ message_counter = Len(conversation_history)
    /\ \A i \in 1..Len(conversation_history) : conversation_history[i].timestamp = i - 1
    /\ \A i, j \in 1..Len(conversation_history) :
           i # j => conversation_history[i].timestamp # conversation_history[j].timestamp
    /\ last.op \in PipelineOps =>
           (Len(conversation_history) = last.len0 + 1 /\ message_counter = last.counter0 + 1)

C24_Witness ==
    /\ last.op = "manual"
    /\ Len(conversation_history) = 2
    /\ conversation_history[1].sender = "Partner"
    /\ conversation_history[1].timestamp = 0
    /\ conversation_history[2].timestamp = 1
    /\ message_counter = 2

----------------------------------------------------------------------------
\* the Settings page (checked under SpecApp)

\* the row of table users with the id of the logged-in user
StoredUser == users[CHOOSE i \in 1..Len(users) : users[i].id = user.id]

\* C21: after "Update Preferences" reports success, the stored User has the
\* native language, the target language and the voice that were submitted, so
\* a later login reads the new preferences.
\* The commit runs on a database session the user object is not part of: the
\* row keeps the preferences of the signup.
C21_UpdatePersisted ==
    (last.op = "update" /\ last.ok) => Preferences(StoredUser) = last.submitted

\* C26: opening the Settings page never fails for a logged-in user.
\* A user who signed up with target "none" holds a value that
\* SUPPORTED_LANGUAGES.index does not find.
C26_SettingsOpens ==
    last.op = "settings" => ~last.raised

----------------------------------------------------------------------------
\* the history across logout and login, and the translation toggle
\* (checked under SpecSession)

\* C22: the history belongs to the session of one login: after a logout and a
\* later login in the same browser session, by the same or another user, the
\* history holds no turn from before the logout and the counter is 0 again.
\* logout deletes only user and token from st.session_state.
C22_HistoryDiscarded ==
    (last.op = "login" /\ user # NoUser)
        => (conversation_history = << >> /\ message_counter = 0)

\* C23: while "Enable Translation" is off, every turn of the outgoing, incoming
\* and manual operation has a translated text equal to its original text,
\* whatever languages the user holds.
\* No operation of conversation mode reads the toggle.
C23_DisabledIsIdentity ==
    (last.op \in PipelineOps /\ ~last.raised /\ ~sess.translation_enabled)
        => LastTurn.translated = LastTurn.original

----------------------------------------------------------------------------
\* the "Active Decoding" toggle (checked under SpecGate)

\* C25 as stated: with the toggle off a press of the outgoing button changes
\* nothing and invokes neither the Signal Source, the Translator nor the
\* Synthesizer. The run still translates the manual text box (line 230).
C25_NothingInvoked ==
    last.op = "blocked" =>
        /\ Len(conversation_history) = last.len0
        /\ message_counter = last.counter0
        /\ logs = last.logs0
        /\ last.speech = << >>
        /\ \A i \in 1..Len(last.translations) : ~last.translations[i].called

\* C25, amended: with the toggle off a press of the outgoing button leaves
\* history, counter and log unchanged, decodes no phrase, translates no decoded
\* phrase and synthesizes nothing; the only translate_text call of that run is
\* the one of the manual text box into the native language, which every run
\* makes. With the toggle off no outgoing turn is decoded, and incoming and
\* manual turns are still produced.
C25_BlockedOutgoing ==
    /\ last.op = "outgoing" => active_decoding
    /\ last.op = "blocked" =>
           /\ ~active_decoding
           /\ ~last.raised
           /\ Len(conversation_history) = last.len0
           /\ message_counter = last.counter0
           /\ logs = last.logs0
           /\ last.writes = << >>
           /\ last.speech = << >>
           /\ Len(last.translations) = 1
           /\ last.translations[1].text \in BoxTexts
           /\ last.translations[1].source_lang = ManualBaseLanguage
           /\ last.translations[1].target_lang = user.native_language
           /\ \A reading \in Readings : last.translations[1].text # reading.phrase
    /\ (last.op \in {"incoming", "manual"} /\ ~active_decoding) => (~last.raised /\ AppendedOne)

\* a blocked press after one turn, with text in the manual box that the
\* en-es model translated
C25_Witness ==
    /\ last.op = "blocked"
    /\ ~active_decoding
    /\ Len(conversation_history) = 1
    /\ message_counter = 1
    /\ last.translations[1].text = <<"hello">>
    /\ last.translations[1].called
    /\ last.translations[1].report = "ok"

====
